---- MODULE Spec2Model ----
(***************************************************************************)
(* Model of app.py, the Streamlit scheduler backed by schedule.csv in a    *)
(* GitHub repository.  One run of the script is modelled as a sequence of  *)
(* steps, one per network request, so that writes by other clients of the  *)
(* store can fall between the requests of one run.                         *)
(***************************************************************************)
EXTENDS Integers, Sequences, FiniteSets, TLC

\* ------------------------------------------------------------------ bounds
\* Buttons the operator presses, one at a rerun of the script.
MaxPresses == 2
\* Commits to schedule.csv that clients other than this program make.
MaxExternal == 1
\* Largest repeat_count the recurrence expander is checked with.
MaxCount == 4
\* Longest table the normalisation and the CSV round trip are checked with
\* by call.
MaxRawRows == 2

\* ------------------------------------------------------------- constants
COLUMNS == <<"Date", "Weekday", "Name", "Activity", "Time">>

weekday_order ==
    <<"Monday", "Tuesday", "Wednesday", "Thursday", "Friday", "Saturday", "Sunday">>

\* Python's None where the code returns or tests it (df is None, sha is None).
None == [none |-> TRUE]

\* An absent credential: st.secrets.get("GITHUB_TOKEN", None) is falsy.
NoToken == ""

\* A missing cell as pandas holds it after read_csv / strftime of NaT (float
\* nan).  No text cell of the model holds this string.
NaN == "<float nan>"

\* pd.NA, the filler of a column sanitize_remote_df adds.
NA == "<pd.NA>"

\* pandas' NaT, the value of a Date cell that does not parse.  Python's date
\* ordinals start at 1, so 0 is free.
NaT == 0

IsMissing(c) == c = NaN \/ c = NA

\* ----------------------------------------------------------------- dates
\* datetime.date as its proleptic Gregorian ordinal (date.toordinal()).
IsLeap(y) == y % 4 = 0 /\ (y % 100 # 0 \/ y % 400 = 0)

DaysInMonth(y, m) ==
    IF m = 2 THEN (IF IsLeap(y) THEN 29 ELSE 28)
    ELSE IF m \in {4, 6, 9, 11} THEN 30 ELSE 31

RECURSIVE DaysBeforeMonth(_, _)
DaysBeforeMonth(y, m) ==
    IF m <= 1 THEN 0 ELSE DaysBeforeMonth(y, m - 1) + DaysInMonth(y, m - 1)

DaysBeforeYear(y) ==
    LET p == y - 1 IN p * 365 + (p \div 4) - (p \div 100) + (p \div 400)

Ymd2Ord(y, m, d) == DaysBeforeYear(y) + DaysBeforeMonth(y, m) + d

\* datetime._ord2ymd
Ord2Ymd(o) ==
    LET n0   == o - 1
        n400 == n0 \div 146097
        r400 == n0 % 146097
        n100 == r400 \div 36524
        r100 == r400 % 36524
        n4   == r100 \div 1461
        r4   == r100 % 1461
        n1   == r4 \div 365
        n    == r4 % 365
        year == n400 * 400 + 1 + n100 * 100 + n4 * 4 + n1
        leap == n1 = 3 /\ (n4 # 24 \/ n100 = 3)
        m0   == (n + 50) \div 32
        p0   == DaysBeforeMonth(IF leap THEN 2000 ELSE 2001, m0)
        month == IF p0 > n THEN m0 - 1 ELSE m0
        prec  == DaysBeforeMonth(IF leap THEN 2000 ELSE 2001, month)
    IN  IF n1 = 4 \/ n100 = 4
        THEN [y |-> year - 1, m |-> 12, d |-> 31]
        ELSE [y |-> year, m |-> month, d |-> n - prec + 1]

Digit == <<"0", "1", "2", "3", "4", "5", "6", "7", "8", "9">>

Pad2(n) == Digit[((n \div 10) % 10) + 1] \o Digit[(n % 10) + 1]

Pad4(n) == Pad2(n \div 100) \o Pad2(n % 100)

\* str(d) of a datetime.date: YYYY-MM-DD.
IsoFormat(o) ==
    LET t == Ord2Ymd(o) IN Pad4(t.y) \o "-" \o Pad2(t.m) \o "-" \o Pad2(t.d)

\* pd.to_datetime(d).strftime("%A"); date.weekday() is (ordinal + 6) % 7.
WeekdayName(o) == IF o = NaT THEN NaN ELSE weekday_order[((o + 6) % 7) + 1]

\* date + timedelta(days=k)
AddDays(o, k) == o + k

\* The day the model's operator works on, and the dates the model considers.
Today == Ymd2Ord(2024, 2, 26)

DateWindow == {AddDays(Today, k) : k \in (0 - 7) .. (7 * MaxCount)}

\* ------------------------------------------------------- tables and CSV
\* A DataFrame as read from CSV text: column names and rows of cells, each
\* cell a string or NaN.  The stored file has the same shape, its cells the
\* text between the commas ("" for an empty cell).
Frame(cols, rows) == [cols |-> cols, rows |-> rows]

\* pd.DataFrame(columns=COLUMNS)
EmptyFrame == Frame(COLUMNS, <<>>)

\* The blob's bytes: a CSV file, or bytes that do not decode or parse
\* (invalid base64 or UTF-8, an empty file, ragged quoting).
Csv(rows) == [ok |-> TRUE, cols |-> COLUMNS, rows |-> rows]

Undecodable == [ok |-> FALSE, cols |-> <<>>, rows |-> <<>>]

\* base64.b64encode(...).decode / base64.b64decode(...).decode
B64Encode(c) == [b64 |-> c]

B64Decode(e) == e.b64

\* The cell texts pandas' read_csv reads as missing by default.
NaStrings ==
    {"", "#N/A", "#N/A N/A", "#NA", "-1.#IND", "-1.#QNAN", "-NaN", "-nan",
     "1.#IND", "1.#QNAN", "<NA>", "N/A", "NA", "NULL", "NaN", "None", "n/a",
     "nan", "null"}

\* pd.read_csv(StringIO(raw), dtype=str)
read_csv(c) ==
    Frame(c.cols,
          [i \in 1 .. Len(c.rows) |->
              [j \in 1 .. Len(c.rows[i]) |->
                  IF c.rows[i][j] \in NaStrings THEN NaN ELSE c.rows[i][j]]])

\* The column names the model knows to match "^unnamed" in lower case.
UnnamedCols == {"Unnamed: 0", "unnamed: 0", "UNNAMED: 0.1"}

ColIndex(cols, name) ==
    IF \E j \in 1 .. Len(cols) : cols[j] = name
    THEN CHOOSE j \in 1 .. Len(cols) :
             cols[j] = name /\ \A k \in 1 .. (j - 1) : cols[k] # name
    ELSE 0

\* pd.to_datetime(cell, errors="coerce").dt.date on one cell: an ISO date of
\* the dates the model considers parses, anything else is NaT.
IsoOf == [o \in DateWindow |-> IsoFormat(o)]

ParseDate(c) ==
    IF \E o \in DateWindow : IsoOf[o] = c
    THEN CHOOSE o \in DateWindow : IsoOf[o] = c
    ELSE NaT

Row(date, weekday, name, activity, time) ==
    [Date |-> date, Weekday |-> weekday, Name |-> name,
     Activity |-> activity, Time |-> time]

\* A normalisation that kept the weekday the file held.
sanitize_trusting(df) ==
    IF df = None THEN <<>>
    ELSE
      LET cell(r, name) ==
              IF name \in UnnamedCols \/ ColIndex(df.cols, name) = 0
              THEN NA
              ELSE r[ColIndex(df.cols, name)]
      IN  [i \in 1 .. Len(df.rows) |->
              Row(ParseDate(cell(df.rows[i], "Date")),
                  cell(df.rows[i], "Weekday"),
                  cell(df.rows[i], "Name"),
                  cell(df.rows[i], "Activity"),
                  cell(df.rows[i], "Time"))]

\* What df[COLUMNS] raises when a column is not there.
KeyError == [cols |-> <<>>, rows |-> <<>>, raised |-> "KeyError"]

\* line 72: the columns whose lower-cased name starts with "unnamed" go.
DropUnnamed(df) ==
    LET named(j) == df.cols[j] \notin UnnamedCols
        keep == SelectSeq([j \in 1 .. Len(df.cols) |-> j], named)
    IN  Frame([k \in 1 .. Len(keep) |-> df.cols[keep[k]]],
              [i \in 1 .. Len(df.rows) |->
                  [k \in 1 .. Len(keep) |-> df.rows[i][keep[k]]]])

\* A normalisation without the loop of lines 74-76.
EnsureNothing(df) == df

\* lines 74-76: each canonical column that is not there is added, all pd.NA.
EnsureColumns(df) ==
    LET absent(c) == ColIndex(df.cols, c) = 0
        added == SelectSeq(COLUMNS, absent)
    IN  Frame(df.cols \o added,
              [i \in 1 .. Len(df.rows) |->
                  df.rows[i] \o [k \in 1 .. Len(added) |-> NA]])

\* line 77: df[COLUMNS]
SelectColumns(df) ==
    IF \E j \in 1 .. Len(COLUMNS) : ColIndex(df.cols, COLUMNS[j]) = 0
    THEN KeyError
    ELSE Frame(COLUMNS,
               [i \in 1 .. Len(df.rows) |->
                   [j \in 1 .. Len(COLUMNS) |->
                       df.rows[i][ColIndex(df.cols, COLUMNS[j])]]])

\* lines 79-80: Date becomes a date or NaT, Weekday the day name of it.  The
\* columns stay in their places.
NormalizeDates(df) ==
    IF df = KeyError THEN KeyError
    ELSE Frame(df.cols,
               [i \in 1 .. Len(df.rows) |->
                   [j \in 1 .. Len(df.cols) |->
                       IF df.cols[j] = "Date" THEN ParseDate(df.rows[i][j])
                       ELSE IF df.cols[j] = "Weekday"
                       THEN WeekdayName(ParseDate(df.rows[i][ColIndex(df.cols, "Date")]))
                       ELSE df.rows[i][j]]])

\* lines 69-81 on a frame read from CSV, as a frame.
sanitize_frame(df) ==
    IF df = None THEN EmptyFrame
    ELSE NormalizeDates(SelectColumns(EnsureColumns(DropUnnamed(df))))

\* The rows of a frame whose columns are COLUMNS, each as a record.
TableOf(frame) ==
    [i \in 1 .. Len(frame.rows) |->
        Row(frame.rows[i][1], frame.rows[i][2], frame.rows[i][3],
            frame.rows[i][4], frame.rows[i][5])]

\* A canonical table: a sequence of rows with the five columns of COLUMNS,
\* Date a date ordinal or NaT, the other cells a string, NaN or NA.
sanitize_remote_df(df) == TableOf(sanitize_frame(df))

\* to_csv's text of one cell: a missing value is written as the empty cell.
CsvCell(c) == IF IsMissing(c) THEN "" ELSE c

\* lines 98-100: Date as ISO string or "", then to_csv(index=False).
to_csv(df) ==
    Csv([i \in 1 .. Len(df) |->
            << IF df[i].Date = NaT THEN "" ELSE IsoFormat(df[i].Date),
               CsvCell(df[i].Weekday), CsvCell(df[i].Name),
               CsvCell(df[i].Activity), CsvCell(df[i].Time) >>])

\* How an f-string renders a cell.
FmtCell(c) == IF c = NaN THEN "nan" ELSE IF c = NA THEN "<NA>" ELSE c

FmtDate(o) == IF o = NaT THEN "NaT" ELSE IsoFormat(o)

\* lines 279-281
Label(row) ==
    FmtDate(row.Date) \o " | " \o FmtCell(row.Weekday) \o " | "
        \o FmtCell(row.Name) \o " - " \o FmtCell(row.Activity)
        \o " @ " \o FmtCell(row.Time)

Labels(df) == [i \in 1 .. Len(df) |-> Label(df[i])]

RECURSIVE SelectRows(_, _, _)
\* df[mask]: the rows whose label satisfies keep, in their order.
SelectRows(df, lab, keepEqual) ==
    IF df = <<>> THEN <<>>
    ELSE LET rest == SelectRows(Tail(df), lab, keepEqual)
         IN  IF (Label(Head(df)) = lab) = keepEqual
             THEN <<Head(df)>> \o rest
             ELSE rest

\* line 287
to_delete(df, selected_label) == SelectRows(df, selected_label, TRUE)

RECURSIVE RemoveFirst(_, _)
\* A delete that removed only the first row with the label.
RemoveFirst(df, selected_label) ==
    IF df = <<>> THEN <<>>
    ELSE IF Label(Head(df)) = selected_label THEN Tail(df)
    ELSE <<Head(df)>> \o RemoveFirst(Tail(df), selected_label)

\* line 291
updated_df(df, selected_label) == SelectRows(df, selected_label, FALSE)

\* ------------------------------------------------------------ recurrence
\* An expansion that stepped a weekly event by days.
expand_by_days(date, name, activity, time, recurrence, repeat_count) ==
    [k \in 1 .. repeat_count |->
        LET new_date == IF recurrence = "None" THEN date ELSE AddDays(date, k - 1)
        IN  Row(new_date, WeekdayName(new_date), name, activity, time)]

expand_recurring_events(date, name, activity, time, recurrence, repeat_count) ==
    [k \in 1 .. repeat_count |->
        LET i == k - 1
            new_date == IF recurrence = "Daily" THEN AddDays(date, i)
                        ELSE IF recurrence = "Weekly" THEN AddDays(date, 7 * i)
                        ELSE date
        IN  Row(new_date, WeekdayName(new_date), name, activity, time)]

\* A merge that put the staged rows first.
concat_front(latest, rows) == rows \o latest

\* lines 222, 256: pd.concat([latest_df, new_rows], ignore_index=True)
concat(latest, rows) == latest \o rows

\* ------------------------------------------------------ natural language
\* The text typed into the Smart Add box, as its words.
RECURSIVE Join(_)
Join(ws) ==
    IF ws = <<>> THEN ""
    ELSE IF Len(ws) = 1 THEN ws[1]
    ELSE ws[1] \o " " \o Join(Tail(ws))

\* The lower-case letter of a letter, any other character as it is.
LowerChar(c) ==
    LET upper == <<"A", "B", "C", "D", "E", "F", "G", "H", "I", "J", "K", "L", "M",
                   "N", "O", "P", "Q", "R", "S", "T", "U", "V", "W", "X", "Y", "Z">>
        lower == <<"a", "b", "c", "d", "e", "f", "g", "h", "i", "j", "k", "l", "m",
                   "n", "o", "p", "q", "r", "s", "t", "u", "v", "w", "x", "y", "z">>
    IN  IF \E k \in 1 .. 26 : upper[k] = c
        THEN lower[CHOOSE k \in 1 .. 26 : upper[k] = c]
        ELSE c

\* str.lower()
RECURSIVE Lower(_)
Lower(word) ==
    IF word = "" THEN ""
    ELSE LowerChar(SubSeq(word, 1, 1)) \o Lower(SubSeq(word, 2, Len(word)))

\* The word is the keyword in any case (re.IGNORECASE); "on", "for" and
\* "at" stand between white space in the pattern, so they are whole words.
IsWord(word, keyword) == Lower(word) = keyword

\* The pattern's "add" is not anchored on the left: it matches the end of a
\* word.
EndsWithAdd(word) ==
    /\ Len(word) >= 3
    /\ Lower(SubSeq(word, Len(word) - 2, Len(word))) = "add"

\* The most recent day of the given name, the operator's day included.
RECURSIVE LastWeekday(_, _)
LastWeekday(o, day) ==
    IF Lower(WeekdayName(o)) = day THEN o ELSE LastWeekday(o - 1, day)

\* dateparser.parse(date_phrase) with the library's default settings, on
\* the phrases the model's resolver knows, in any case: the relative days,
\* a weekday name (the most recent such day), an ISO date.
dateparser_parse(phrase) ==
    LET p == Lower(phrase)
    IN  IF p = "today" THEN [ok |-> TRUE, date |-> Today]
        ELSE IF p = "tomorrow" THEN [ok |-> TRUE, date |-> AddDays(Today, 1)]
        ELSE IF p = "yesterday" THEN [ok |-> TRUE, date |-> AddDays(Today, 0 - 1)]
        ELSE IF \E k \in 1 .. 7 : Lower(weekday_order[k]) = p
        THEN [ok |-> TRUE, date |-> LastWeekday(Today, p)]
        ELSE IF ParseDate(p) # NaT THEN [ok |-> TRUE, date |-> ParseDate(p)]
        ELSE [ok |-> FALSE, date |-> NaT]

\* The pattern of line 138 on words w, with re.search's choices: the
\* leftmost "add" from which the pattern matches, the shortest activity
\* (the "on" clause tried before the bare "for"), the shortest date phrase,
\* and the shortest name, which ends at the first "at" that something follows.
Min(S) == CHOOSE x \in S : \A y \in S : x <= y

\* A "for" after position i that a name follows.
ForAfter(w, i) == {f \in (i + 1) .. (Len(w) - 1) : IsWord(w[f], "for")}

\* An "on" clause starts at p: a date phrase, then a "for".
OnAt(w, p) == IsWord(w[p], "on") /\ ForAfter(w, p + 1) # {}

\* Where the activity that starts after the "add" at a can end.
ActivityEnds(w, a) ==
    {p \in (a + 2) .. Len(w) : OnAt(w, p) \/ (IsWord(w[p], "for") /\ p < Len(w))}

MatchStarts(w) == {a \in 1 .. Len(w) : EndsWithAdd(w[a]) /\ ActivityEnds(w, a) # {}}

\* A parser that took an unresolved date phrase for today.
parse_event_lenient(w) ==
    IF MatchStarts(w) = {} THEN None
    ELSE
      LET a == Min(MatchStarts(w))
          p == Min(ActivityEnds(w, a))
          hasOn == OnAt(w, p)
          f == IF hasOn THEN Min(ForAfter(w, p + 1)) ELSE p
          ats == {t \in (f + 2) .. (Len(w) - 1) : IsWord(w[t], "at")}
          parsed == dateparser_parse(IF hasOn THEN Join(SubSeq(w, p + 1, f - 1))
                                     ELSE "today")
          date == IF parsed.ok THEN parsed.date ELSE Today
      IN  Row(date, WeekdayName(date),
              Join(SubSeq(w, f + 1, IF ats = {} THEN Len(w) ELSE Min(ats) - 1)),
              Join(SubSeq(w, a + 1, p - 1)),
              IF ats = {} THEN "" ELSE Join(SubSeq(w, Min(ats) + 1, Len(w))))

parse_event(w) ==
    IF MatchStarts(w) = {} THEN None
    ELSE
      LET a == Min(MatchStarts(w))
          p == Min(ActivityEnds(w, a))
          hasOn == OnAt(w, p)
          f == IF hasOn THEN Min(ForAfter(w, p + 1)) ELSE p
          ats == {t \in (f + 2) .. (Len(w) - 1) : IsWord(w[t], "at")}
          activity == Join(SubSeq(w, a + 1, p - 1))
          date_phrase == IF hasOn THEN Join(SubSeq(w, p + 1, f - 1)) ELSE "today"
          name == Join(SubSeq(w, f + 1, IF ats = {} THEN Len(w) ELSE Min(ats) - 1))
          time == IF ats = {} THEN "" ELSE Join(SubSeq(w, Min(ats) + 1, Len(w)))
          parsed == dateparser_parse(date_phrase)
      IN  IF ~parsed.ok THEN None
          ELSE Row(parsed.date, WeekdayName(parsed.date), name, activity, time)

\* ------------------------------------------------------------- the store
\* The version token of the contents API: the git blob sha of the content.
Sha(c) == [sha |-> c]

\* GET API_URL: 200 with sha and base64 content, 404 for a missing file, 500
\* (or a rate limit) when the store does not serve the request.
ApiGet(rem, up) ==
    IF ~up THEN [status_code |-> 500, sha |-> None, content |-> B64Encode(Undecodable)]
    ELSE IF ~rem.exists
    THEN [status_code |-> 404, sha |-> None, content |-> B64Encode(Undecodable)]
    ELSE [status_code |-> 200, sha |-> Sha(rem.content), content |-> B64Encode(rem.content)]

\* pd.read_csv(raw_url, dtype=str) of the public mirror: the frame, or an
\* exception (HTTP error, private repository, unparsable text).
MirrorGet(rem, up) ==
    IF up /\ rem.exists /\ rem.content.ok
    THEN [ok |-> TRUE, df |-> read_csv(rem.content)]
    ELSE [ok |-> FALSE, df |-> None]

\* PUT API_URL: a missing file is created by a request without sha; an
\* existing file is replaced only by a request that carries its current sha.
StorePut(rem, payload, up) ==
    LET written == [exists |-> TRUE, content |-> B64Decode(payload.content)]
    IN  IF ~up
        THEN [status_code |-> 500, text |-> "Server Error", remote |-> rem]
        ELSE IF ~rem.exists
        THEN IF payload.has_sha
             THEN [status_code |-> 409, text |-> "does not match", remote |-> rem]
             ELSE [status_code |-> 201, text |-> "created", remote |-> written]
        ELSE IF ~payload.has_sha
        THEN [status_code |-> 422, text |-> "sha wasn't supplied", remote |-> rem]
        ELSE IF payload.sha # Sha(rem.content)
        THEN [status_code |-> 409, text |-> "does not match", remote |-> rem]
        ELSE [status_code |-> 200, text |-> "updated", remote |-> written]

\* ------------------------------------------------------ the store client
\* A fetch that gave up on a payload it cannot decode.
fetch_remote_csv_strict(tok, r) ==
    IF r.status_code = 200 /\ B64Decode(r.content).ok
    THEN [df |-> read_csv(B64Decode(r.content)), sha |-> r.sha]
    ELSE [df |-> None, sha |-> None]

fetch_remote_csv_via_api(tok, r) ==
    IF r.status_code = 200
    THEN [df  |-> IF B64Decode(r.content).ok
                  THEN read_csv(B64Decode(r.content))
                  ELSE EmptyFrame,
          sha |-> r.sha]
    ELSE [df |-> None, sha |-> None]

\* The result of the read of lines 47-48, None when the API is not asked.
load_fetch(tok, r) ==
    IF tok # NoToken THEN fetch_remote_csv_via_api(tok, r)
    ELSE [df |-> None, sha |-> None]

load_schedule_from_github(tok, r, m) ==
    IF load_fetch(tok, r).df # None
    THEN sanitize_remote_df(load_fetch(tok, r).df)
    ELSE IF m.ok THEN sanitize_remote_df(m.df)
    ELSE <<>>

get_github_sha(tok, r) == IF r.status_code = 200 THEN r.sha ELSE None

\* update_schedule_on_github returns None for the status when it refuses.
NoStatus == 0

MissingToken == [ok |-> FALSE, code |-> NoStatus, text |-> "Missing token"]

\* line 94
write_refused(tok) == tok = NoToken

\* lines 98-101
encoded(df) == B64Encode(to_csv(df))

\* lines 104-106
Payload(message, content, sha) ==
    [message |-> message, content |-> content,
     has_sha |-> sha # None, sha |-> sha]

\* A result that counts only 200 as success.
write_result_200(r) ==
    [ok |-> r.status_code = 200, code |-> r.status_code, text |-> r.text]

\* line 110
write_result(r) ==
    [ok |-> r.status_code \in {200, 201}, code |-> r.status_code, text |-> r.text]

\* ------------------------------------------------------------- the state
Sessions == {1, 2}

VARIABLES
    token,          \* st.secrets.get("GITHUB_TOKEN"), NoToken when absent
    remote,         \* the blob at API_URL: [exists, content]
    running,        \* the browser sessions that run the script
    others,         \* commits that other clients of the repository still make
    presses,        \* buttons the operator still presses
    pc,             \* per session: where its run of the script stands
    loading,        \* per session: the load in progress has asked the API,
                    \*              got no table and goes on to the mirror
    kind,           \* per session: the button that started the run
    inp,            \* per session: the widget values of the run
    changed,        \* per session: the handler's refetch returned another table
                    \*              than the load of line 172 had
    latest_df,      \* per session: the script's latest_df
    src,            \* per session: the line of the load that set latest_df
    via,            \* per session: the line that load returned at (52, 58, 60)
    resp,           \* per session: the response of the GET inside its last load
    fetched,        \* per session: what the fetch inside its last load returned
    sha_resp,       \* per session: the response of the GET of get_github_sha
    shown,          \* per session: the message the handler ended with
    new_rows,       \* per session: the rows staged by an add
    out_df,         \* per session: the table handed to update_schedule_on_github
    sha,            \* per session: sha inside update_schedule_on_github
    put,            \* per session: the PUT of this run, as the store saw it
    result,         \* per session: (ok, code, text) of the write
    selected_label, \* per session: what the delete selectbox returned
    call            \* a direct call of a helper: [fn, args, ret]

vars == << token, remote, running, others, presses, pc, loading, kind, inp, changed, latest_df,
           src, via, resp, fetched, sha_resp, shown, new_rows, out_df, sha, put,
           result,
           selected_label, call >>

\* The variables of one run of the script.
run == << pc, loading, kind, inp, changed, latest_df, src, via, resp, fetched, sha_resp, shown,
          new_rows, out_df, sha, put, result, selected_label >>

NoLabel == "<no selection>"

NoResponse == [status_code |-> NoStatus, sha |-> None, content |-> B64Encode(Undecodable)]

NoFetch == [df |-> None, sha |-> None]

NoPut ==
    [count |-> 0, has_sha |-> FALSE, sha |-> None, content |-> Undecodable,
     status_code |-> NoStatus, text |-> "", before |-> [exists |-> FALSE, content |-> Undecodable],
     after |-> [exists |-> FALSE, content |-> Undecodable]]

NoResult == [ok |-> FALSE, code |-> NoStatus, text |-> ""]

NoCall == [fn |-> "", args |-> <<>>, ret |-> <<>>]

NoInput == [sel |-> NoLabel]

\* What the manual add form holds when "Add Event" is pressed.
AddInputs ==
    [date : {Today}, name : {"Ann"}, activity : {"gym"}, time : {"9am"},
     recurrence : {"None", "Daily"}, repeat_count : {2}]

\* What the Smart Add box holds when "Parse and Add" is pressed.
NlInputs ==
    { <<"Add", "gym", "on", "tomorrow", "for", "Ann", "At", "9am">>,
      <<"add", "gym", "on", "someday", "for", "Ann">>,
      <<"walk", "the", "dog">> }

\* The blob before the first run: absent, bytes that are no CSV, an empty
\* schedule, one event.
InitialRemotes ==
    { [exists |-> FALSE, content |-> Undecodable],
      [exists |-> TRUE, content |-> Undecodable],
      [exists |-> TRUE, content |-> Csv(<<>>)],
      [exists |-> TRUE,
       content |-> Csv(<< <<"2024-02-26", "Monday", "Ann", "gym", "9am">> >>)] }

\* What another client of the repository commits to schedule.csv: a file
\* written with pandas' index column that holds an event with a stale
\* weekday and no time, and one with an unreadable date.
ExternalContents ==
    { [ok |-> TRUE,
       cols |-> <<"Unnamed: 0", "Date", "Weekday", "Name", "Activity", "Time">>,
       rows |-> << <<"0", "2024-02-27", "Friday", "Bob", "swim", "">>,
                   <<"1", "soon", "Monday", "Bob", "run", "6pm">> >>] }

SessionInit ==
    /\ pc = [s \in Sessions |-> "idle"]
    /\ loading = [s \in Sessions |-> FALSE]
    /\ kind = [s \in Sessions |-> "view"]
    /\ inp = [s \in Sessions |-> NoInput]
    /\ changed = [s \in Sessions |-> FALSE]
    /\ latest_df = [s \in Sessions |-> <<>>]
    /\ sha_resp = [s \in Sessions |-> NoResponse]
    /\ shown = [s \in Sessions |-> ""]
    /\ src = [s \in Sessions |-> 0]
    /\ via = [s \in Sessions |-> 0]
    /\ resp = [s \in Sessions |-> NoResponse]
    /\ fetched = [s \in Sessions |-> NoFetch]
    /\ new_rows = [s \in Sessions |-> <<>>]
    /\ out_df = [s \in Sessions |-> <<>>]
    /\ sha = [s \in Sessions |-> None]
    /\ put = [s \in Sessions |-> NoPut]
    /\ result = [s \in Sessions |-> NoResult]
    /\ selected_label = [s \in Sessions |-> NoLabel]

Init ==
    /\ token \in {NoToken, "ghp_token"}
    /\ remote \in InitialRemotes
    /\ running = {1}
    /\ others = MaxExternal
    /\ presses = MaxPresses
    /\ SessionInit
    /\ call = NoCall

\* ----------------------------------------------------------- the script
Range(f) == {f[i] : i \in DOMAIN f}

\* A handler without the check of the credential.
handler_never_refuses(tok) == FALSE

\* lines 226, 259, 295: if not token
handler_refuses(tok) == tok = NoToken

Message(k) ==
    IF k = "add" THEN "Add event(s) via UI"
    ELSE IF k = "parse" THEN "Add event via NLP"
    ELSE "Delete event"

\* The mirror was not read.
NoMirror == [ok |-> FALSE, df |-> None]

\* One request of load_schedule_from_github: with a token the GET of line 48
\* comes first; the read of the mirror (line 56) is the request when there
\* is no token, and the second request when the GET gave no table.  The
\* store may have changed between the two.
LoadRequest(s, up) ==
    IF token # NoToken /\ ~loading[s]
    THEN [api |-> TRUE, r |-> ApiGet(remote, up), m |-> NoMirror]
    ELSE [api |-> FALSE, r |-> resp[s], m |-> MirrorGet(remote, up)]

\* line 49 is false after the GET: the load goes on to line 54.
FallsBack(o) == o.api /\ load_fetch(token, o.r).df = None

Loaded(o) == load_schedule_from_github(token, o.r, o.m)

\* The return statement that load ends at: line 52 with the API's table,
\* line 60 with the mirror's, line 58 with the empty table.
LoadReturn(o) ==
    IF load_fetch(token, o.r).df # None THEN 52
    ELSE IF o.m.ok THEN 60
    ELSE 58

\* A handler that kept the table the script already held.
Refetch_held(s, o) == latest_df[s]

\* lines 219, 254, 276: latest_df = load_schedule_from_github(token=token)
Refetch(s, o) == Loaded(o)

\* The load has made its GET and stands before the read of the mirror, the
\* run at the given place; the script's variables are as they were.
LoadPending(s, o, at) ==
    /\ loading' = [loading EXCEPT ![s] = TRUE]
    /\ pc' = [pc EXCEPT ![s] = at]
    /\ resp' = [resp EXCEPT ![s] = o.r]
    /\ fetched' = [fetched EXCEPT ![s] = load_fetch(token, o.r)]
    /\ UNCHANGED << kind, inp, changed, latest_df, src, via, sha_resp, shown,
                    new_rows, out_df, sha, put, result, selected_label >>

\* latest_df = load_schedule_from_github(token) at the given line, with the
\* table it returns.
LoadAt(s, line, o, table) ==
    /\ latest_df' = [latest_df EXCEPT ![s] = table]
    /\ src' = [src EXCEPT ![s] = line]
    /\ via' = [via EXCEPT ![s] = LoadReturn(o)]
    /\ resp' = [resp EXCEPT ![s] = o.r]
    /\ fetched' = [fetched EXCEPT ![s] = load_fetch(token, o.r)]
    /\ loading' = [loading EXCEPT ![s] = FALSE]

\* What the operator has entered and pressed when the script reruns; the
\* label to delete is picked from the table the page shows.
InputsFor(k, table) ==
    IF k = "add" THEN AddInputs
    ELSE IF k = "parse" THEN {[nl_input |-> t] : t \in NlInputs}
    ELSE IF table # <<>> THEN {[sel |-> l] : l \in Range(Labels(table))}
    ELSE {NoInput}

\* The script's variables are gone when a run ends.
EndRun(s) ==
    /\ pc' = [pc EXCEPT ![s] = "idle"]
    /\ loading' = [loading EXCEPT ![s] = FALSE]
    /\ kind' = [kind EXCEPT ![s] = "view"]
    /\ inp' = [inp EXCEPT ![s] = NoInput]
    /\ changed' = [changed EXCEPT ![s] = FALSE]
    /\ latest_df' = [latest_df EXCEPT ![s] = <<>>]
    /\ src' = [src EXCEPT ![s] = 0]
    /\ via' = [via EXCEPT ![s] = 0]
    /\ resp' = [resp EXCEPT ![s] = NoResponse]
    /\ fetched' = [fetched EXCEPT ![s] = NoFetch]
    /\ sha_resp' = [sha_resp EXCEPT ![s] = NoResponse]
    /\ shown' = [shown EXCEPT ![s] = ""]
    /\ new_rows' = [new_rows EXCEPT ![s] = <<>>]
    /\ out_df' = [out_df EXCEPT ![s] = <<>>]
    /\ sha' = [sha EXCEPT ![s] = None]
    /\ put' = [put EXCEPT ![s] = NoPut]
    /\ result' = [result EXCEPT ![s] = NoResult]
    /\ selected_label' = [selected_label EXCEPT ![s] = NoLabel]

\* A handler ends with a message and without a write.
EndHandler(s, message) ==
    /\ pc' = [pc EXCEPT ![s] = "report"]
    /\ shown' = [shown EXCEPT ![s] = message]

\* A rerun of the script with a button pressed starts: lines 169-175, the
\* load for display, one request at a step.  (A rerun without a button only
\* reads.)
Start(s) ==
    /\ s \in running
    /\ pc[s] = "idle"
    /\ presses > 0
    /\ \E up \in BOOLEAN :
          LET o == LoadRequest(s, up)
              table == Loaded(o)
          IN  IF FallsBack(o)
              THEN LoadPending(s, o, "idle") /\ UNCHANGED presses
              ELSE \E k \in {"add", "parse", "delete"} :
                   \E i \in InputsFor(k, table) :
                      /\ LoadAt(s, 172, o, table)
                      /\ kind' = [kind EXCEPT ![s] = k]
                      /\ inp' = [inp EXCEPT ![s] = i]
                      /\ pc' = [pc EXCEPT ![s] =
                                   IF k = "delete" THEN "del_load" ELSE k]
                      /\ presses' = presses - 1
                      /\ UNCHANGED << changed, sha_resp, shown, new_rows, out_df,
                                      sha, put, result, selected_label >>
    /\ UNCHANGED << token, remote, running, others, call >>

\* lines 219-229 and 254-262: refetch (one request at a step), merge, and
\* the call of the write unless the credential is missing.
MergeAndCommit(s, line, rows, o) ==
    LET table == Refetch(s, o)
        combined_df == concat(table, rows)
    IN  /\ IF FallsBack(o) THEN LoadPending(s, o, pc[s])
           ELSE /\ LoadAt(s, line, o, table)
                /\ changed' = [changed EXCEPT ![s] = table # latest_df[s]]
                /\ new_rows' = [new_rows EXCEPT ![s] = rows]
                /\ IF handler_refuses(token)
                   THEN /\ EndHandler(s, "Missing GITHUB_TOKEN")
                        /\ UNCHANGED out_df
                   ELSE /\ pc' = [pc EXCEPT ![s] = "write"]
                        /\ out_df' = [out_df EXCEPT ![s] = combined_df]
                        /\ UNCHANGED shown
                /\ UNCHANGED << kind, inp, sha_resp, sha, put, result,
                                selected_label >>
        /\ UNCHANGED << token, remote, running, others, presses, call >>

\* "Add Event", lines 216-229.
AddEvent(s) ==
    /\ pc[s] = "add"
    /\ \E up \in BOOLEAN :
          MergeAndCommit(s, 219,
              expand_recurring_events(inp[s].date, inp[s].name, inp[s].activity,
                                      inp[s].time, inp[s].recurrence,
                                      inp[s].repeat_count),
              LoadRequest(s, up))

\* "Parse and Add", lines 248-262.
ParseAndAdd(s) ==
    /\ pc[s] = "parse"
    /\ LET parsed == parse_event(inp[s].nl_input)
       IN  IF parsed = None
           THEN /\ EndHandler(s, "Could not parse input")
                /\ UNCHANGED << token, remote, running, others, presses, loading, kind, inp,
                                changed, latest_df, src, via, resp, fetched,
                                sha_resp, new_rows,
                                out_df, sha, put, result, selected_label, call >>
           ELSE \E up \in BOOLEAN :
                   MergeAndCommit(s, 254, <<parsed>>, LoadRequest(s, up))

\* A write that reused the sha its caller's fetch had seen.
write_sha_stale(s, r) == fetched[s].sha

\* line 103: the sha of the payload is the one the write's own GET returns.
write_sha(s, r) == get_github_sha(token, r)

\* update_schedule_on_github up to its GET, lines 94-103.
WriteGetSha(s) ==
    /\ pc[s] = "write"
    /\ IF write_refused(token)
       THEN /\ result' = [result EXCEPT ![s] = MissingToken]
            /\ EndHandler(s, "Failed to update GitHub")
            /\ UNCHANGED << sha, sha_resp >>
       ELSE \E apiUp \in BOOLEAN :
               /\ sha_resp' = [sha_resp EXCEPT ![s] = ApiGet(remote, apiUp)]
               /\ sha' = [sha EXCEPT ![s] = write_sha(s, ApiGet(remote, apiUp))]
               /\ pc' = [pc EXCEPT ![s] = "put"]
               /\ UNCHANGED << result, shown >>
    /\ UNCHANGED << token, remote, running, others, presses, loading, kind, inp, changed,
                    latest_df, src, via, resp, fetched, new_rows, out_df, put,
                    selected_label, call >>

\* A handler that called the write again after a failure.
after_write_retry(res) == IF res.ok THEN "report" ELSE "write"

\* lines 230-236, 263-270, 299-304: whatever the write returned, the handler
\* shows it and is over.
after_write(res) == "report"

\* update_schedule_on_github from the payload to its return, lines 104-110,
\* and the handler's message for its result (lines 230-236, 263-270, 299-304).
WritePut(s) ==
    /\ pc[s] = "put"
    /\ \E up \in BOOLEAN :
          LET payload == Payload(Message(kind[s]), encoded(out_df[s]), sha[s])
              r == StorePut(remote, payload, up)
          IN  /\ remote' = r.remote
              /\ put' = [put EXCEPT ![s] =
                            [count |-> put[s].count + 1,
                             has_sha |-> payload.has_sha,
                             sha |-> payload.sha,
                             content |-> B64Decode(payload.content),
                             status_code |-> r.status_code,
                             text |-> r.text,
                             before |-> remote,
                             after |-> r.remote]]
              /\ result' = [result EXCEPT ![s] = write_result(r)]
              /\ pc' = [pc EXCEPT ![s] = after_write(write_result(r))]
              /\ shown' = [shown EXCEPT ![s] =
                              IF write_result(r).ok THEN "success"
                              ELSE "Failed to update GitHub"]
    /\ UNCHANGED << token, running, others, presses, loading, kind, inp, changed, latest_df,
                    src, via, resp, fetched, sha_resp, new_rows, out_df, sha,
                    selected_label, call >>

\* What st.selectbox returns at line 283: the operator's choice while it is
\* still among the options, else the first option, None without options.
selectbox(options, choice) ==
    IF choice \in Range(options) THEN choice
    ELSE IF options = <<>> THEN NoLabel
    ELSE options[1]

\* The values line 283 can return when the page showed shown_options at the
\* operator's choice: with other options the widget is another widget to
\* Streamlit, which may keep the choice that is still offered or start from
\* its first option.
selectbox_returns(options, choice, shown_options) ==
    IF options = shown_options THEN {selectbox(options, choice)}
    ELSE {selectbox(options, choice), selectbox(options, NoLabel)}

\* lines 276-298: the load for the delete section, and "Delete Selected
\* Event" up to the call of the write.  On an empty table the selectbox has
\* no option (where line 279 raises instead, the run ends the same way).
DeleteSection(s) ==
    /\ pc[s] = "del_load"
    /\ \E up \in BOOLEAN :
          LET o == LoadRequest(s, up)
              table == Refetch(s, o)
          IN  IF FallsBack(o) THEN LoadPending(s, o, pc[s])
              ELSE \E sel \in selectbox_returns(Labels(table), inp[s].sel,
                                                 Labels(latest_df[s])) :
                  /\ LoadAt(s, 276, o, table)
                  /\ changed' = [changed EXCEPT ![s] = table # latest_df[s]]
                  /\ selected_label' = [selected_label EXCEPT ![s] = sel]
                  /\ IF to_delete(table, sel) = <<>>
                     THEN /\ EndHandler(s, "No matching event found")
                          /\ UNCHANGED out_df
                     ELSE IF handler_refuses(token)
                     THEN /\ EndHandler(s, "Missing GITHUB_TOKEN")
                          /\ UNCHANGED out_df
                     ELSE /\ pc' = [pc EXCEPT ![s] = "write"]
                          /\ out_df' = [out_df EXCEPT ![s] = updated_df(table, sel)]
                          /\ UNCHANGED shown
                  /\ UNCHANGED << kind, inp, sha_resp, new_rows, sha, put, result >>
    /\ UNCHANGED << token, remote, running, others, presses, call >>

\* lines 233, 266: after a successful add the script loads the table again.
ReloadAfterWrite(s) ==
    /\ \/ pc[s] = "report" /\ kind[s] \in {"add", "parse"} /\ result[s].ok
       \/ pc[s] = "reload"
    /\ \E up \in BOOLEAN :
          LET o == LoadRequest(s, up)
          IN  IF FallsBack(o) THEN LoadPending(s, o, "reload")
              ELSE /\ LoadAt(s, IF kind[s] = "add" THEN 233 ELSE 266, o, Loaded(o))
                   /\ pc' = [pc EXCEPT ![s] = "section"]
                   /\ UNCHANGED << kind, inp, changed, sha_resp, shown, new_rows,
                                   out_df, sha, put, result, selected_label >>
    /\ UNCHANGED << token, remote, running, others, presses, call >>

\* lines 276-285 in a run whose button was an add: the script loads the
\* table for the delete section and builds its selectbox, which the operator
\* has left at its first option; the delete button is not pressed.  (Where
\* line 279 raises on an empty table the run is over as well.)
SectionLoad(s) ==
    /\ \/ pc[s] = "report" /\ kind[s] \in {"add", "parse"} /\ ~result[s].ok
       \/ pc[s] = "section"
    /\ \E up \in BOOLEAN :
          LET o == LoadRequest(s, up)
              table == Loaded(o)
          IN  IF FallsBack(o) THEN LoadPending(s, o, "section")
              ELSE /\ LoadAt(s, 276, o, table)
                   /\ selected_label' =
                          [selected_label EXCEPT ![s] = selectbox(Labels(table), NoLabel)]
                   /\ pc' = [pc EXCEPT ![s] = "end"]
                   /\ UNCHANGED << kind, inp, changed, sha_resp, shown, new_rows,
                                   out_df, sha, put, result >>
    /\ UNCHANGED << token, remote, running, others, presses, call >>

\* The script has run to its last line: after line 304 in a run of the
\* delete button, after the delete section in the other runs.
ScriptEnds(s) ==
    /\ \/ pc[s] = "report" /\ kind[s] = "delete"
       \/ pc[s] = "end"
    /\ EndRun(s)
    /\ UNCHANGED << token, remote, running, others, presses, call >>

\* A request raises (no connection, a timeout): the script stops there.
Crash(s) ==
    /\ \/ pc[s] \in {"add", "parse", "write", "put", "del_load", "reload", "section"}
       \/ pc[s] = "report" /\ kind[s] \in {"add", "parse"}
       \/ loading[s]
    /\ EndRun(s)
    /\ UNCHANGED << token, remote, running, others, presses, call >>

\* Another client of the repository commits schedule.csv.
ExternalWrite ==
    /\ others > 0
    /\ others' = others - 1
    /\ \E c \in ExternalContents :
          /\ remote # [exists |-> TRUE, content |-> c]
          /\ remote' = [exists |-> TRUE, content |-> c]
    /\ UNCHANGED << token, running, presses, call >>
    /\ UNCHANGED run

Next ==
    \/ \E s \in Sessions :
          \/ Start(s)
          \/ AddEvent(s)
          \/ ParseAndAdd(s)
          \/ WriteGetSha(s)
          \/ WritePut(s)
          \/ ReloadAfterWrite(s)
          \/ SectionLoad(s)
          \/ ScriptEnds(s)
          \/ DeleteSection(s)
          \/ Crash(s)
    \/ ExternalWrite

Spec == Init /\ [][Next]_vars

\* ------------------------------------------------------------ the write
\* A session whose run has issued its PUT and stands at the end of its
\* handler, before the loads that follow.
HasPut(s) == put[s].count > 0 /\ pc[s] = "report"

\* C1: the sha a write sends in its PUT is the one its own GET, made inside
\* the same call just before the PUT, returned: the PUT carries a sha exactly
\* when that GET answered 200, and then the sha of that answer, whatever sha
\* the earlier fetch of the table had seen.
C1_PutCarriesReresolvedSha ==
    \A s \in Sessions :
        HasPut(s) =>
            /\ put[s].has_sha = (sha_resp[s].status_code = 200)
            /\ put[s].has_sha => put[s].sha = sha_resp[s].sha
            /\ sha_resp[s].status_code = 200 => put[s].sha # None

\* The table was fetched at one sha, another client committed, and the PUT
\* carried the new sha and was accepted.
C1_Witness ==
    \E s \in Sessions :
        /\ HasPut(s)
        /\ fetched[s].sha # None
        /\ put[s].has_sha
        /\ put[s].sha # fetched[s].sha
        /\ put[s].sha = Sha(put[s].before.content)
        /\ put[s].status_code = 200

\* C2: every PUT of a mutating action carries the sha that was observed
\* with the content its table was merged from: when the handler's refetch
\* read the table from the API and the store accepted the PUT, the PUT
\* carried the sha of the response the table came with.
C2_PutShaIsOfMergedRevision ==
    \A s \in Sessions :
        (HasPut(s) /\ via[s] = 52 /\ put[s].status_code \in {200, 201}) =>
            /\ put[s].has_sha
            /\ put[s].sha = resp[s].sha
            /\ put[s].sha = fetched[s].sha

\* The load of a handler ended in the empty table although the request
\* failed (line 58) or the payload could not be decoded (line 36).
RefetchFailed(s) ==
    \/ via[s] = 58 /\ resp[s].status_code = 500
    \/ via[s] = 52 /\ ~B64Decode(resp[s].content).ok

\* C3: when a step of a mutating action fails, a failed or undecodable
\* refetch included, no PUT is accepted and the blob after the action is the
\* blob before it (stated for a blob that exists when the PUT arrives).
C3_FailedStepLeavesRemote ==
    \A s \in Sessions :
        (HasPut(s) /\ RefetchFailed(s) /\ put[s].before.exists) =>
            /\ put[s].status_code \notin {200, 201}
            /\ put[s].after = put[s].before

\* C4: without a credential no session ever calls the write or issues a
\* request of it: a handler ends with the configuration error before the
\* call, the write would refuse such a token, and no PUT is recorded.
C4_NoCredentialNoPut ==
    token = NoToken =>
        /\ write_refused(token)
        /\ \A s \in Sessions :
              /\ pc[s] \notin {"write", "put"}
              /\ put[s] = NoPut
              /\ sha_resp[s] = NoResponse
              /\ result[s] = NoResult
              /\ shown[s] \in {"", "Missing GITHUB_TOKEN", "Could not parse input",
                               "No matching event found"}

\* Without a credential an add was staged and merged, and the handler ended
\* with the configuration error.
C4_Witness ==
    /\ token = NoToken
    /\ \E s \in Sessions :
          /\ pc[s] = "report"
          /\ shown[s] = "Missing GITHUB_TOKEN"
          /\ new_rows[s] # <<>>

\* The line of the load a handler bases its table on.
RefetchLine(k) == IF k = "add" THEN 219 ELSE IF k = "parse" THEN 254 ELSE 276

\* C5: the table a mutating action merges and writes is the one a load made
\* by the handler itself returned (line 219, 254 or 276), never the table of
\* the display load of line 172: with an answer of the API it is that
\* answer's table, and the content of the PUT is built from it.
C5_WrittenTableIsRefetched ==
    \A s \in Sessions :
        HasPut(s) =>
            /\ src[s] = RefetchLine(kind[s])
            /\ via[s] = 52 =>
                  latest_df[s] =
                      sanitize_remote_df(fetch_remote_csv_via_api(token, resp[s]).df)
            /\ put[s].content =
                  to_csv(IF kind[s] = "delete"
                         THEN updated_df(latest_df[s], selected_label[s])
                         ELSE concat(latest_df[s], new_rows[s]))

\* The refetch returned another table than the display load had, and the
\* write went out.
C5_Witness ==
    \E s \in Sessions :
        /\ HasPut(s)
        /\ changed[s]
        /\ via[s] = 52
        /\ latest_df[s] # <<>>
        /\ put[s].status_code = 200

\* C6: after an add whose write succeeded the blob holds the rows of the
\* refetched table in their order, followed by the staged rows in theirs.
C6_AddAppends ==
    \A s \in Sessions :
        (HasPut(s) /\ kind[s] \in {"add", "parse"} /\ result[s].ok) =>
            /\ new_rows[s] # <<>>
            /\ put[s].after.exists
            /\ put[s].after.content =
                  Csv(to_csv(latest_df[s]).rows \o to_csv(new_rows[s]).rows)

\* Two staged rows were appended to a table that had rows.
C6_Witness ==
    \E s \in Sessions :
        /\ HasPut(s)
        /\ kind[s] = "add"
        /\ result[s].ok
        /\ latest_df[s] # <<>>
        /\ Len(new_rows[s]) = 2
        /\ new_rows[s][1] # new_rows[s][2]
        /\ remote = put[s].after

\* C7: the table a successful delete wrote is the refetched table without
\* every row whose label is the selected one, the other rows in their order.
C7_DeleteRemovesEveryMatch ==
    \A s \in Sessions :
        (HasPut(s) /\ kind[s] = "delete" /\ result[s].ok) =>
            LET df == latest_df[s]
                kept == {i \in 1 .. Len(df) : Label(df[i]) # selected_label[s]}
                nth(k) == CHOOSE i \in kept : Cardinality({j \in kept : j <= i}) = k
            IN  /\ Cardinality(kept) < Len(df)
                /\ put[s].content =
                      to_csv([k \in 1 .. Cardinality(kept) |-> df[nth(k)]])

\* A label that two rows share was deleted and rows on both sides of one
\* of them stayed.
C7_Witness ==
    \E s \in Sessions :
        /\ HasPut(s)
        /\ kind[s] = "delete"
        /\ result[s].ok
        /\ Len(latest_df[s]) = Len(put[s].content.rows) + 2
        /\ put[s].content.rows # <<>>

\* C8: the write reports success exactly when the PUT was answered 200 or
\* 201; it reports the status and the body of the answer, and after any
\* other status the blob is the one before the PUT.
C8_SuccessIffCreatedOrUpdated ==
    \A s \in Sessions :
        HasPut(s) =>
            /\ result[s].ok = (put[s].status_code \in {200, 201})
            /\ result[s].code = put[s].status_code
            /\ result[s].text = put[s].text
            /\ ~result[s].ok => put[s].after = put[s].before
            /\ shown[s] = IF result[s].ok THEN "success" ELSE "Failed to update GitHub"

\* A PUT with a stale sha was refused with 409.
C8_Witness ==
    \E s \in Sessions :
        /\ HasPut(s)
        /\ put[s].status_code = 409
        /\ put[s].has_sha
        /\ ~result[s].ok
        /\ result[s].code = 409

\* C9: the fetch returns (None, None) exactly when the GET was not answered
\* 200; after a 200 it returns a table with the sha of that answer, the empty
\* canonical table when the payload cannot be decoded.
C9_FetchResult ==
    \A s \in Sessions :
        (token # NoToken /\ src[s] # 0) =>
            /\ (fetched[s].df = None) = (resp[s].status_code # 200)
            /\ (fetched[s].sha = None) = (resp[s].status_code # 200)
            /\ resp[s].status_code = 200 =>
                  /\ fetched[s].sha = resp[s].sha
                  /\ fetched[s].df =
                        IF B64Decode(resp[s].content).ok
                        THEN read_csv(B64Decode(resp[s].content))
                        ELSE EmptyFrame

\* A 200 with a payload that cannot be decoded gave the empty table and the sha.
C9_Witness ==
    \E s \in Sessions :
        /\ token # NoToken
        /\ src[s] # 0
        /\ resp[s].status_code = 200
        /\ ~B64Decode(resp[s].content).ok
        /\ fetched[s].df = EmptyFrame
        /\ fetched[s].sha = resp[s].sha

\* ------------------------------------------------- the functions by call
\* The arguments expand_recurring_events is called with.
ExpandInputs ==
    [date : {Today, AddDays(Today, 2), Ymd2Ord(2023, 12, 29)},
     name : {"Ann"}, activity : {"gym"}, time : {"", "9am"},
     recurrence : {"None", "Daily", "Weekly"},
     repeat_count : 1 .. MaxCount]

InitExpand ==
    /\ token = NoToken
    /\ remote = [exists |-> FALSE, content |-> Undecodable]
    /\ running = {}
    /\ others = 0
    /\ presses = 0
    /\ SessionInit
    /\ call \in {[fn |-> "expand_recurring_events", args |-> a, ret |-> <<>>] :
                    a \in ExpandInputs}

\* lines 152-162, called once with the arguments drawn.
CallExpand ==
    /\ call.fn = "expand_recurring_events"
    /\ call.ret = <<>>
    /\ call' = [call EXCEPT !.ret =
                   expand_recurring_events(call.args.date, call.args.name,
                                           call.args.activity, call.args.time,
                                           call.args.recurrence,
                                           call.args.repeat_count)]
    /\ UNCHANGED << token, remote, running, others, presses >>
    /\ UNCHANGED run

NextExpand == CallExpand

SpecExpand == InitExpand /\ [][NextExpand]_vars

\* C10: expand_recurring_events returns exactly count rows for None, Daily
\* and Weekly; row i (from 0) has the start date, the start date plus i days,
\* or plus 7*i days; every row has the given name, activity and time, and
\* the weekday of its own date (counted from a known Monday).
C10_ExpandRows ==
    (call.fn = "expand_recurring_events" /\ call.ret # <<>>) =>
        LET a == call.args
            rows == call.ret
            step == IF a.recurrence = "Daily" THEN 1
                    ELSE IF a.recurrence = "Weekly" THEN 7
                    ELSE 0
        IN  /\ Len(rows) = a.repeat_count
            /\ \A k \in 1 .. Len(rows) :
                  /\ rows[k].Date = a.date + step * (k - 1)
                  /\ rows[k].Name = a.name
                  /\ rows[k].Activity = a.activity
                  /\ rows[k].Time = a.time
                  /\ rows[k].Weekday =
                        weekday_order[((rows[k].Date - Ymd2Ord(2024, 2, 26)) % 7) + 1]

\* A weekly event of three rows from a Friday across the end of the year.
C10_Witness ==
    /\ call.fn = "expand_recurring_events"
    /\ call.args.recurrence = "Weekly"
    /\ call.args.repeat_count = 3
    /\ call.args.date = Ymd2Ord(2023, 12, 29)
    /\ Len(call.ret) = 3
    /\ call.ret[3].Date = Ymd2Ord(2024, 1, 12)
    /\ call.ret[3].Weekday = "Friday"

\* --------------------------------------------------------- the weekdays
\* The English name of the day of a date, counted from a known Monday.
DayName(o) == weekday_order[((o - Ymd2Ord(2024, 2, 26)) % 7) + 1]

\* A row whose weekday is that of its date, and missing exactly with it.
WeekdayAgrees(row) ==
    IF row.Date = NaT THEN IsMissing(row.Weekday)
    ELSE row.Weekday = DayName(row.Date)

\* The same of a line of the written file.
CsvWeekdayAgrees(line) ==
    IF line[1] = "" THEN line[2] = ""
    ELSE ParseDate(line[1]) # NaT /\ line[2] = DayName(ParseDate(line[1]))

\* C11: in every table a load returned and every table handed to the write,
\* each row's weekday is the English weekday of its date and is missing
\* exactly when the date is; so is every line of a file the program PUT,
\* whatever weekday the stored file held.
C11_WeekdayFollowsDate ==
    \A s \in Sessions :
        /\ \A i \in 1 .. Len(latest_df[s]) : WeekdayAgrees(latest_df[s][i])
        /\ \A i \in 1 .. Len(out_df[s]) : WeekdayAgrees(out_df[s][i])
        /\ HasPut(s) =>
              \A i \in 1 .. Len(put[s].content.rows) :
                  CsvWeekdayAgrees(put[s].content.rows[i])

\* The file the refetch read held Friday for a Tuesday and a weekday for an
\* unreadable date; the accepted PUT wrote Tuesday and no weekday.
C11_Witness ==
    \E s \in Sessions :
        /\ HasPut(s)
        /\ put[s].status_code = 200
        /\ via[s] = 52
        /\ \E i \in 1 .. Len(B64Decode(resp[s].content).rows) :
              /\ B64Decode(resp[s].content).rows[i][2] = "2024-02-27"
              /\ B64Decode(resp[s].content).rows[i][3] = "Friday"
        /\ \E i \in 1 .. Len(put[s].content.rows) :
              put[s].content.rows[i] = <<"2024-02-27", "Tuesday", "Bob", "swim", "">>
        /\ \E i \in 1 .. Len(put[s].content.rows) :
              put[s].content.rows[i] = <<"", "", "Bob", "run", "6pm">>

\* ------------------------------------------------ normalisation by call
\* The headers of the raw tables: all columns, with an index column,
\* a part of them in another order, none of them.
RawLayouts ==
    { <<"Date", "Weekday", "Name", "Activity", "Time">>,
      <<"Unnamed: 0", "Date", "Weekday", "Name", "Activity", "Time">>,
      <<"Time", "Activity", "Name", "Weekday", "Date", "UNNAMED: 0.1">>,
      <<"Name", "Date">>,
      <<"unnamed: 0", "Time", "Activity", "Name">>,
      <<"Notes">> }

\* What a line of a raw table holds under each header it may have.
RawLines ==
    [Date : {"2024-02-27", "soon", NaN}, Weekday : {"Friday"}, Name : {"Bob"},
     Activity : {"swim"}, Time : {"6pm", NaN}, Index : {"0"}, Notes : {"x"}]

RawCell(line, col) ==
    IF col \in UnnamedCols THEN line.Index
    ELSE IF col = "Date" THEN line.Date
    ELSE IF col = "Weekday" THEN line.Weekday
    ELSE IF col = "Name" THEN line.Name
    ELSE IF col = "Activity" THEN line.Activity
    ELSE IF col = "Time" THEN line.Time
    ELSE line.Notes

RawFrames ==
    { Frame(cols, [i \in 1 .. Len(ls) |->
                      [j \in 1 .. Len(cols) |-> RawCell(ls[i], cols[j])]]) :
        cols \in RawLayouts,
        ls \in UNION {[1 .. n -> RawLines] : n \in 0 .. MaxRawRows} }

InitSanitize ==
    /\ token = NoToken
    /\ remote = [exists |-> FALSE, content |-> Undecodable]
    /\ running = {}
    /\ others = 0
    /\ presses = 0
    /\ SessionInit
    /\ call \in {[fn |-> "sanitize_remote_df", args |-> df, ret |-> <<>>] :
                    df \in RawFrames}

\* lines 62-81, called once with the raw table drawn.
CallSanitize ==
    /\ call.fn = "sanitize_remote_df"
    /\ call.ret = <<>>
    /\ call' = [call EXCEPT !.ret = sanitize_frame(call.args)]
    /\ UNCHANGED << token, remote, running, others, presses >>
    /\ UNCHANGED run

NextSanitize == CallSanitize

SpecSanitize == InitSanitize /\ [][NextSanitize]_vars

\* C12: whatever canonical columns a raw table has and whatever "unnamed"
\* columns it carries, sanitize_remote_df does not raise and returns the
\* five columns Date, Weekday, Name, Activity, Time in that order with as
\* many rows; a Date cell that is no date becomes NaT, and a column the raw
\* table has keeps its cells.
C12_SanitizeShape ==
    (call.fn = "sanitize_remote_df" /\ call.ret # <<>>) =>
        LET raw == call.args
            out == call.ret
            at(c) == ColIndex(raw.cols, c)
        IN  /\ out # KeyError
            /\ out.cols = <<"Date", "Weekday", "Name", "Activity", "Time">>
            /\ Len(out.rows) = Len(raw.rows)
            /\ \A i \in 1 .. Len(out.rows) :
                  /\ Len(out.rows[i]) = 5
                  /\ (at("Date") = 0 \/ raw.rows[i][at("Date")] \in {"soon", NaN})
                        => out.rows[i][1] = NaT
                  /\ (at("Date") # 0 /\ raw.rows[i][at("Date")] = "2024-02-27")
                        => out.rows[i][1] = Ymd2Ord(2024, 2, 27)
                  /\ \A j \in 3 .. 5 :
                        out.rows[i][j] =
                            IF at(COLUMNS[j]) = 0 THEN NA
                            ELSE raw.rows[i][at(COLUMNS[j])]

\* A raw table of two lines with an index column and without Date and
\* Weekday came out with the five columns.
C12_Witness ==
    /\ call.fn = "sanitize_remote_df"
    /\ call.args.cols = <<"unnamed: 0", "Time", "Activity", "Name">>
    /\ Len(call.args.rows) = 2
    /\ call.ret # <<>>
    /\ call.ret.cols = COLUMNS
    /\ Len(call.ret.rows) = 2
    /\ call.ret.rows[1] = <<NaT, NaN, "Bob", "swim", call.args.rows[1][2]>>

\* --------------------------------------------------- round trip by call
\* lines 69-81 on a table that is canonical already: the five columns are
\* there, Date holds dates or NaT and stays, Weekday is recomputed, the text
\* cells stay as they are.
sanitize_canonical(T) ==
    [i \in 1 .. Len(T) |->
        Row(T[i].Date, WeekdayName(T[i].Date), T[i].Name, T[i].Activity, T[i].Time)]

\* The rows of the canonical tables: with and without a date, a name that
\* pandas reads as missing, the time given, left empty by the operator, a
\* text that pandas reads as missing, or missing.
CanonicalRows ==
    { Row(d, WeekdayName(d), n, "gym", t) :
        d \in {Today, NaT}, n \in {"Ann", "#NA"}, t \in {"9am", "", "-nan", NaN} }

CanonicalTables == UNION {[1 .. n -> CanonicalRows] : n \in 0 .. MaxRawRows}

InitRoundTrip ==
    /\ token = NoToken
    /\ remote = [exists |-> FALSE, content |-> Undecodable]
    /\ running = {}
    /\ others = 0
    /\ presses = 0
    /\ SessionInit
    /\ call \in {[fn |-> "round_trip", args |-> T, ret |-> <<>>] :
                    T \in CanonicalTables}

\* The table is serialised as lines 98-100 do, read back as line 33 does and
\* normalised (lines 62-81); beside it, the table normalised directly.
CallRoundTrip ==
    /\ call.fn = "round_trip"
    /\ call.ret = <<>>
    /\ call' = [call EXCEPT !.ret =
                   [back |-> sanitize_remote_df(read_csv(to_csv(call.args))),
                    norm |-> sanitize_canonical(call.args)]]
    /\ UNCHANGED << token, remote, running, others, presses >>
    /\ UNCHANGED run

NextRoundTrip == CallRoundTrip

SpecRoundTrip == InitRoundTrip /\ [][NextRoundTrip]_vars

\* Two cells are equal, any two missing values counting as equal.
SameCell(a, b) == IF IsMissing(a) \/ IsMissing(b) THEN IsMissing(a) /\ IsMissing(b) ELSE a = b

\* C13: a canonical table serialised to CSV as the write does, parsed back
\* as the fetch does and normalised equals the table normalised, cell by
\* cell, rows with a null date or an empty text cell included.
C13_RoundTrip ==
    (call.fn = "round_trip" /\ call.ret # <<>>) =>
        /\ Len(call.ret.back) = Len(call.ret.norm)
        /\ \A i \in 1 .. Len(call.ret.norm) :
              /\ call.ret.back[i].Date = call.ret.norm[i].Date
              /\ SameCell(call.ret.back[i].Weekday, call.ret.norm[i].Weekday)
              /\ SameCell(call.ret.back[i].Name, call.ret.norm[i].Name)
              /\ SameCell(call.ret.back[i].Activity, call.ret.norm[i].Activity)
              /\ SameCell(call.ret.back[i].Time, call.ret.norm[i].Time)

\* The round trip is exact on the tables without a text cell that pandas
\* reads as missing.
C13_ExactWithoutEmptyText ==
    (call.fn = "round_trip" /\ call.ret # <<>>
        /\ \A i \in 1 .. Len(call.args) :
              /\ call.args[i].Time \notin NaStrings
              /\ call.args[i].Name \notin NaStrings) =>
        /\ Len(call.ret.back) = Len(call.ret.norm)
        /\ \A i \in 1 .. Len(call.ret.norm) :
              /\ call.ret.back[i].Date = call.ret.norm[i].Date
              /\ SameCell(call.ret.back[i].Weekday, call.ret.norm[i].Weekday)
              /\ call.ret.back[i].Name = call.ret.norm[i].Name
              /\ call.ret.back[i].Activity = call.ret.norm[i].Activity
              /\ SameCell(call.ret.back[i].Time, call.ret.norm[i].Time)

\* ------------------------------------------------ the parsed add by text
\* The texts the Smart Add box is checked with: with and without "add", an
\* activity of one or three words, no "on" clause or one that resolves or
\* does not, no "for" clause, a bare "for" or a name, with and without a time.
ParseTexts ==
    { add \o act \o on \o for \o at :
        add \in {<<>>, <<"add">>},
        act \in {<<"gym">>, <<"walk", "the", "dog">>},
        on \in {<<>>, <<"on", "today">>, <<"on", "tomorrow">>, <<"on", "someday">>},
        for \in {<<>>, <<"for">>, <<"for", "Ann">>},
        at \in {<<>>, <<"at", "9am">>} }
    \cup { <<"add", "for", "Ann">>, <<"add", "gym", "for", "Ann", "at">>,
           <<"please", "add", "gym", "for", "Ann", "Lee", "at", "9", "am">>,
           <<"Add", "gym", "on", "Wednesday", "for", "Vinoth">>,
           <<"ADD", "gym", "FOR", "Ann", "AT", "9am">>,
           <<"add", "gym", "On", "Tomorrow", "for", "Ann">>,
           <<"padd", "gym", "for", "Ann">>,
           <<"Add", "gym", "on", "Wednesday">> }

\* The script has run to line 248 with a text in the box and "Parse and
\* Add" pressed; the display load of line 172 read the file.
InitParse ==
    /\ token \in {NoToken, "ghp_token"}
    /\ remote = [exists |-> TRUE,
                 content |-> Csv(<< <<"2024-02-26", "Monday", "Ann", "gym", "9am">> >>)]
    /\ running = {1}
    /\ others = 0
    /\ presses = 0
    /\ call = NoCall
    /\ pc = [s \in Sessions |-> IF s = 1 THEN "parse" ELSE "idle"]
    /\ loading = [s \in Sessions |-> FALSE]
    /\ kind = [s \in Sessions |-> IF s = 1 THEN "parse" ELSE "view"]
    /\ inp \in {[s \in Sessions |-> IF s = 1 THEN [nl_input |-> t] ELSE NoInput] :
                   t \in ParseTexts}
    /\ LET r == IF token # NoToken THEN ApiGet(remote, TRUE) ELSE NoResponse
           m == MirrorGet(remote, TRUE)
       IN  /\ latest_df = [s \in Sessions |->
                              IF s = 1 THEN load_schedule_from_github(token, r, m)
                              ELSE <<>>]
           /\ resp = [s \in Sessions |-> IF s = 1 THEN r ELSE NoResponse]
           /\ fetched = [s \in Sessions |->
                            IF s = 1 THEN load_fetch(token, r) ELSE NoFetch]
           /\ via = [s \in Sessions |->
                        IF s # 1 THEN 0 ELSE IF token # NoToken THEN 52 ELSE 60]
    /\ src = [s \in Sessions |-> IF s = 1 THEN 172 ELSE 0]
    /\ changed = [s \in Sessions |-> FALSE]
    /\ sha_resp = [s \in Sessions |-> NoResponse]
    /\ shown = [s \in Sessions |-> ""]
    /\ new_rows = [s \in Sessions |-> <<>>]
    /\ out_df = [s \in Sessions |-> <<>>]
    /\ sha = [s \in Sessions |-> None]
    /\ put = [s \in Sessions |-> NoPut]
    /\ result = [s \in Sessions |-> NoResult]
    /\ selected_label = [s \in Sessions |-> NoLabel]

NextParse ==
    \E s \in Sessions :
        \/ ParseAndAdd(s)
        \/ WriteGetSha(s)
        \/ WritePut(s)
        \/ ReloadAfterWrite(s)
        \/ SectionLoad(s)
        \/ ScriptEnds(s)

SpecParse == InitParse /\ [][NextParse]_vars

\* The handler of "Parse and Add" has acted on the text.
Parsed(s) == kind[s] = "parse" /\ pc[s] \in {"write", "put", "report"}

\* C14: parse_event gives an event only for a text with "add", an activity
\* and a "for" clause whose date phrase resolves (keywords in any case, as
\* the pattern takes them): a text without "for" or
\* with an unresolved date phrase gives None; without an "on" clause the
\* date is today, without an "at" clause the time is empty; a text made as
\* add <activity> [on <phrase>] for <name> [at <time>] gives those parts.
\* After None the handler makes no load and the write makes no request.
C14_ParseEvent ==
    \A s \in Sessions :
        Parsed(s) =>
            LET w == inp[s].nl_input
                has(k) == \E i \in 1 .. Len(w) : Lower(w[i]) = k
                between(k1, k2) ==
                    {Lower(Join(SubSeq(w, i + 1, j - 1))) :
                        i \in {i \in 1 .. Len(w) : Lower(w[i]) = k1},
                        j \in {j \in 1 .. Len(w) : Lower(w[j]) = k2}}
                event == new_rows[s] # <<>>
            IN  /\ event => /\ \E i \in 1 .. Len(w) : EndsWithAdd(w[i])
                            /\ has("for")
                            /\ Len(new_rows[s]) = 1
                            /\ src[s] = 254
                            /\ new_rows[s][1].Weekday = DayName(new_rows[s][1].Date)
                /\ ~event => /\ shown[s] = "Could not parse input"
                             /\ pc[s] = "report"
                             /\ src[s] = 172
                             /\ put[s] = NoPut
                             /\ sha_resp[s] = NoResponse
                             /\ out_df[s] = <<>>
                /\ ~has("for") => ~event
                /\ (has("on") /\ between("on", "for")
                                     \cap {"today", "tomorrow", "wednesday"} = {})
                      => ~event
                /\ (event /\ ~has("on")) => new_rows[s][1].Date = Today
                /\ (event /\ ~has("at")) => new_rows[s][1].Time = ""
                /\ \A act \in {<<"gym">>, <<"walk", "the", "dog">>} :
                   \A on \in {<<>>, <<"on", "today">>, <<"on", "tomorrow">>} :
                   \A at \in {<<>>, <<"at", "9am">>} :
                      w = <<"add">> \o act \o on \o <<"for", "Ann">> \o at =>
                          new_rows[s] =
                              << Row(IF on = <<"on", "tomorrow">>
                                     THEN Ymd2Ord(2024, 2, 27) ELSE Ymd2Ord(2024, 2, 26),
                                     IF on = <<"on", "tomorrow">>
                                     THEN "Tuesday" ELSE "Monday",
                                     "Ann", Join(act),
                                     IF at = <<>> THEN "" ELSE "9am") >>
                /\ w = <<"Add", "gym", "on", "Wednesday", "for", "Vinoth">> =>
                       new_rows[s] = << Row(Ymd2Ord(2024, 2, 21), "Wednesday",
                                            "Vinoth", "gym", "") >>
                /\ w = <<"ADD", "gym", "FOR", "Ann", "AT", "9am">> =>
                       new_rows[s] = << Row(Today, "Monday", "Ann", "gym", "9am") >>

\* A text without "on" and "at" was parsed and written after the stored row
\* with today's date and no time.
C14_Witness ==
    \E s \in Sessions :
        /\ Parsed(s)
        /\ inp[s].nl_input = <<"add", "walk", "the", "dog", "for", "Ann">>
        /\ HasPut(s)
        /\ put[s].status_code = 200
        /\ Len(put[s].content.rows) = 2
        /\ put[s].content.rows[2] = <<"2024-02-26", "Monday", "Ann", "walk the dog", "">>

\* ------------------------------------------------- two sessions at once
\* What the two operators add: one event each.
RaceInputs ==
    [date : {Today}, name : {"Ann", "Bob"}, activity : {"gym"}, time : {"9am"},
     recurrence : {"None"}, repeat_count : {1}]

\* Two sessions of the script have run to line 216 with "Add Event" pressed;
\* the display load of each read the file.
InitRace ==
    /\ token = "ghp_token"
    /\ remote \in {[exists |-> TRUE, content |-> Csv(<<>>)],
                   [exists |-> TRUE,
                    content |-> Csv(<< <<"2024-02-27", "Tuesday", "Cy", "run", "7am">> >>)]}
    /\ running = Sessions
    /\ others = 0
    /\ presses = 0
    /\ call = NoCall
    /\ pc = [s \in Sessions |-> "add"]
    /\ loading = [s \in Sessions |-> FALSE]
    /\ kind = [s \in Sessions |-> "add"]
    /\ inp \in [Sessions -> RaceInputs]
    /\ latest_df = [s \in Sessions |->
                       load_schedule_from_github(token, ApiGet(remote, TRUE),
                                                 MirrorGet(remote, TRUE))]
    /\ resp = [s \in Sessions |-> ApiGet(remote, TRUE)]
    /\ fetched = [s \in Sessions |-> load_fetch(token, ApiGet(remote, TRUE))]
    /\ via = [s \in Sessions |-> 52]
    /\ src = [s \in Sessions |-> 172]
    /\ changed = [s \in Sessions |-> FALSE]
    /\ sha_resp = [s \in Sessions |-> NoResponse]
    /\ shown = [s \in Sessions |-> ""]
    /\ new_rows = [s \in Sessions |-> <<>>]
    /\ out_df = [s \in Sessions |-> <<>>]
    /\ sha = [s \in Sessions |-> None]
    /\ put = [s \in Sessions |-> NoPut]
    /\ result = [s \in Sessions |-> NoResult]
    /\ selected_label = [s \in Sessions |-> NoLabel]

NextRace ==
    \E s \in Sessions :
        \/ AddEvent(s)
        \/ WriteGetSha(s)
        \/ WritePut(s)
        \/ ReloadAfterWrite(s)
        \/ SectionLoad(s)
        \/ ScriptEnds(s)

SpecRace == InitRace /\ [][NextRace]_vars

\* Session a's PUT was accepted; session b, whose table was refetched at the
\* revision a's table was, then resolved the sha of a's result and sent its
\* PUT to a store that answered.
WroteOver(a, b) ==
    /\ a # b
    /\ HasPut(a) /\ HasPut(b)
    /\ result[a].ok
    /\ via[a] = 52 /\ via[b] = 52
    /\ fetched[a].sha = fetched[b].sha
    /\ sha_resp[b].status_code = 200
    /\ sha_resp[b].sha = Sha(put[a].after.content)
    /\ put[b].before = put[a].after
    /\ put[b].status_code # 500

\* C15: two sessions that refetched the table at the same revision can both
\* have their add reported successful while the first writer's rows are
\* lost: the second write resolves the sha the first write produced, so the
\* store, which refuses stale shas, accepts it, and the blob becomes the
\* second session's table, the refetched rows and its own only.
C15_SecondWriterWins ==
    \A a, b \in Sessions :
        WroteOver(a, b) =>
            /\ put[b].has_sha
            /\ put[b].sha # fetched[b].sha
            /\ put[b].status_code = 200
            /\ result[b].ok
            /\ shown[b] = "success"
            /\ put[b].after.content.rows =
                  to_csv(latest_df[b]).rows \o to_csv(new_rows[b]).rows
            /\ latest_df[b] = latest_df[a]

\* Both adds were reported successful and the first writer's row is not in
\* the blob.
C15_Witness ==
    \E a, b \in Sessions :
        /\ WroteOver(a, b)
        /\ result[a].ok /\ result[b].ok
        /\ remote = put[b].after
        /\ latest_df[a] # <<>>
        /\ \E i \in 1 .. Len(put[a].after.content.rows) :
              put[a].after.content.rows[i] = to_csv(new_rows[a]).rows[1]
        /\ \A i \in 1 .. Len(remote.content.rows) :
              remote.content.rows[i] # to_csv(new_rows[a]).rows[1]

\* ------------------------------------------------------------- no retry
\* C16: a mutating action issues at most one PUT: once its PUT is answered
\* the handler is at its end (only loads and the end of the run follow),
\* with the failure shown when the PUT was refused or failed; no second PUT
\* is counted in a run.
C16_AtMostOnePut ==
    \A s \in Sessions :
        /\ put[s].count <= 1
        /\ put[s].count > 0 =>
              /\ pc[s] \in {"report", "reload", "section", "end"}
              /\ put[s].status_code \notin {200, 201} =>
                    /\ shown[s] = "Failed to update GitHub"
                    /\ ~result[s].ok
                    /\ result[s].code = put[s].status_code

\* A PUT failed with 500 and the run is at its end with the failure shown
\* and the blob as it was.
C16_Witness ==
    \E s \in Sessions :
        /\ HasPut(s)
        /\ put[s].status_code = 500
        /\ put[s].count = 1
        /\ pc[s] = "report"
        /\ shown[s] = "Failed to update GitHub"
        /\ remote = put[s].before

\* ------------------------------------------------- the sha of the payload
\* C17: a PUT for a blob that exists carries a sha; the sha is left out only
\* in the first write of a blob that does not exist.  In particular, when the
\* write's lookup of the sha failed, no PUT without a sha goes out for a blob
\* that exists.
C17_ShaSentWhenBlobExists ==
    \A s \in Sessions :
        (HasPut(s) /\ sha_resp[s].status_code = 500 /\ put[s].before.exists) =>
            put[s].has_sha

\* Where the lookup is answered, the sha is sent exactly for a blob that was
\* there at the lookup.
C17_ShaFollowsLookup ==
    \A s \in Sessions :
        (HasPut(s) /\ sha_resp[s].status_code # 500) =>
            put[s].has_sha = (sha_resp[s].status_code = 200)

\* ------------------------------------------------ a delete without a match
\* The delete section of session s has acted.
DeleteActed(s) == kind[s] = "delete" /\ src[s] = 276

\* The operator had chosen a row, and its label is the label of no row of
\* the table the delete section fetched.
ChosenRowGone(s) ==
    /\ inp[s].sel # NoLabel
    /\ \A i \in 1 .. Len(latest_df[s]) : Label(latest_df[s][i]) # inp[s].sel

\* C18: in the delete action, when no row of the freshly fetched table has
\* the label the operator selected (another session removed the row), no PUT
\* is issued and the blob is left unchanged; and a delete never writes a table
\* with the same rows as the one it fetched.
C18_ChosenRowGoneNoPut ==
    \A s \in Sessions :
        DeleteActed(s) =>
            /\ ChosenRowGone(s) => put[s] = NoPut
            /\ HasPut(s) => put[s].content.rows # to_csv(latest_df[s]).rows

\* What does hold, for the label line 283 returns in the run of the button:
\* the warning of lines 288-289 is shown only when the fetched table has no
\* row at all, then without a request of the write; with any row in the
\* table a row is selected for deletion, and the table a delete writes is
\* shorter than the table it fetched.
C18_WarningOnlyWithoutRows ==
    \A s \in Sessions :
        DeleteActed(s) =>
            /\ (\A i \in 1 .. Len(latest_df[s]) :
                    Label(latest_df[s][i]) # selected_label[s]) =>
                  /\ latest_df[s] = <<>>
                  /\ pc[s] = "report"
                  /\ shown[s] = "No matching event found"
                  /\ put[s] = NoPut
                  /\ sha_resp[s] = NoResponse
                  /\ out_df[s] = <<>>
            /\ latest_df[s] # <<>> =>
                  /\ selected_label[s] \in Range(Labels(latest_df[s]))
                  /\ shown[s] # "No matching event found"
            /\ pc[s] \in {"write", "put"} => Len(out_df[s]) < Len(latest_df[s])
            /\ HasPut(s) =>
                  /\ Len(put[s].content.rows) < Len(latest_df[s])
                  /\ put[s].content.rows # to_csv(latest_df[s]).rows

\* The operator had chosen a row; another client replaced the file before
\* "Delete Selected Event" ran; the fetched table still had rows, none of
\* them the chosen one; the first row was deleted by an accepted PUT.
C18_OtherRowDeleted ==
    \E s \in Sessions :
        /\ DeleteActed(s)
        /\ ChosenRowGone(s)
        /\ latest_df[s] # <<>>
        /\ selected_label[s] = Label(latest_df[s][1])
        /\ HasPut(s)
        /\ put[s].status_code = 200
        /\ put[s].after # put[s].before

====
